---- MODULE Spec2Model ----
(***************************************************************************)
(* The PDF canvas editor (src/src/app/page.tsx): the snapping engine        *)
(* (snapToValue, getSnapPoints, applySnapping) and the editor around it:   *)
(* the placed images, the canvas frame, the snap flag, the selection, the  *)
(* crop session, the active snap guides and the drag and resize handlers.  *)
(*                                                                         *)
(* Coordinates are integers in canvas units.  Widths, heights and canvas   *)
(* dimensions are drawn from even numbers, so that the code's "/ 2" is     *)
(* exact and Half models it without rounding.                              *)
(***************************************************************************)
EXTENDS Integers, Sequences, FiniteSets, TLC

VARIABLES
    canvasImages,      \* useState: the placed images, in creation order
    canvasSize,        \* useState: the canvas frame
    snapEnabled,       \* useState: the snap flag
    selectedImageId,   \* useState: the selected image, NoId for null
    cropMode,          \* useState: a crop session is open
    cropRect,          \* useState: <<>> for null, <<rect>> otherwise
    activeSnapGuides,  \* useState: [x, y], the guide lines shown
    nodes,             \* the Konva node of each placed image: its x and y
    gesture,           \* the pointer interaction in progress
    pendingLoads,      \* img.onload callbacks of applyCrop not yet run
    nextId,            \* the next fresh image id
    crops,             \* crop sessions opened so far
    gestures,          \* drags and resizes begun so far
    event,             \* the handler that ran last, with its inputs
    lastCall           \* the engine call under study, with its result

\* What the engine reads.
engineVars == <<canvasImages, canvasSize, snapEnabled>>

\* The rest of the editor.
editorVars ==
    <<selectedImageId, cropMode, cropRect, activeSnapGuides, nodes, gesture,
      pendingLoads, nextId, crops, gestures, event>>

\* The editor apart from the record of its last handler.
editorVarsButEvent ==
    <<selectedImageId, cropMode, cropRect, activeSnapGuides, nodes, gesture,
      pendingLoads, nextId, crops, gestures>>

vars == <<engineVars, editorVars, lastCall>>

-----------------------------------------------------------------------------
(* Bounds of the model *)

MaxImages == 2

(* Program constants *)

SNAP_TOLERANCE == 10

\* "Infinity" of line 343: larger than every distance the model can produce.
Infinity == 1000000

\* No image id: getSnapPoints called without excludeId (undefined).
NoId == 0

-----------------------------------------------------------------------------
(* Input domains *)

Ids == 1..MaxImages

\* Positions at which an image may stand (Math.random() * 200 on import).
PlacedXs == {4, 100}
PlacedYs == {4, 100}

\* <<width, height>> of an image or of a proposed rectangle.
Sizes == {<<200, 150>>, <<50, 50>>}

\* Rotations an image may have been given (degrees).
Rotations == {0, 90}

\* Proposed positions handed to applySnapping (the node's x() and y()).
ProposedXs == {4, 10, 105, 204, 400}
ProposedYs == {4, 6, 98, 300}

\* Canvas frames: the initial 800 x 600 frame and the zero-area shapes.
CanvasSizes ==
    { [width |-> 800, height |-> 600],
      [width |-> 0,   height |-> 600],
      [width |-> 800, height |-> 0],
      [width |-> 0,   height |-> 0] }

Image(i, px, py, w, h, r, v) ==
    [ id |-> i, x |-> px, y |-> py, width |-> w, height |-> h,
      rotation |-> r, src |-> v ]

\* Every image as imported (rotation 0, src 0 the page's data URL), and the
\* images placed on the diagonal also turned by 90 degrees.
Images ==
    { Image(i, px, py, s[1], s[2], 0, 0) :
        i \in Ids, px \in PlacedXs, py \in PlacedYs, s \in Sizes }
    \cup
    { Image(i, px, px, s[1], s[2], r, 0) :
        i \in Ids, px \in PlacedXs, s \in Sizes, r \in Rotations }

\* Ids are unique and the list is in creation order (images are appended on
\* import, and only ever filtered or mapped afterwards).
ImageLists ==
    { l \in UNION { [1..n -> Images] : n \in 0..MaxImages } :
        \A i, j \in DOMAIN l : i < j => l[i].id < l[j].id }

-----------------------------------------------------------------------------
(* Arithmetic *)

Abs(n) == IF n < 0 THEN -n ELSE n

\* v / 2, exact on the even values the model uses.
Half(v) == v \div 2

Pos(px, py) == [x |-> px, y |-> py]

\* The values a sequence holds.
Range(points) == { points[i] : i \in DOMAIN points }

-----------------------------------------------------------------------------
(* snapToValue, lines 258-265 *)

\* Mutant: a point exactly tolerance away does not match.
Within_Strict(value, point, tolerance) == Abs(value - point) < tolerance

Within(value, point, tolerance) == Abs(value - point) <= tolerance

RECURSIVE ScanPoints(_, _, _, _)
ScanPoints(value, snapPoints, tolerance, i) ==
    IF i > Len(snapPoints) THEN value
    ELSE IF Within(value, snapPoints[i], tolerance) THEN snapPoints[i]
    ELSE ScanPoints(value, snapPoints, tolerance, i + 1)

snapToValue(value, snapPoints, tolerance) ==
    ScanPoints(value, snapPoints, tolerance, 1)

-----------------------------------------------------------------------------
(* getSnapPoints, lines 267-289 *)

CanvasPoints ==
    [ vertical   |-> <<0, canvasSize.width, Half(canvasSize.width)>>,
      horizontal |-> <<0, canvasSize.height, Half(canvasSize.height)>> ]

\* Mutant: the filter on the id is forgotten.
OtherImages_NoFilter(excludeId) == canvasImages

OtherImages(excludeId) ==
    SelectSeq(canvasImages, LAMBDA img : img.id # excludeId)

\* Mutant: the points are taken from the client rectangle of the turned image.
PushImage_ClientRect(snapPoints, img) ==
    LET left   == IF img.rotation = 90 THEN img.x - img.height ELSE img.x
        width  == IF img.rotation = 90 THEN img.height ELSE img.width
        height == IF img.rotation = 90 THEN img.width ELSE img.height
    IN [ vertical   |-> snapPoints.vertical
                          \o <<left, left + Half(width), left + width>>,
         horizontal |-> snapPoints.horizontal
                          \o <<img.y, img.y + Half(height), img.y + height>> ]

\* Mutant: the right and bottom edges are pushed before the centers.
PushImage_EdgesFirst(snapPoints, img) ==
    [ vertical   |-> snapPoints.vertical
                       \o <<img.x, img.x + img.width, img.x + Half(img.width)>>,
      horizontal |-> snapPoints.horizontal
                       \o <<img.y, img.y + img.height, img.y + Half(img.height)>> ]

PushImage(snapPoints, img) ==
    [ vertical   |-> snapPoints.vertical
                       \o <<img.x, img.x + Half(img.width), img.x + img.width>>,
      horizontal |-> snapPoints.horizontal
                       \o <<img.y, img.y + Half(img.height), img.y + img.height>> ]

RECURSIVE ForEachImage(_, _, _)
ForEachImage(snapPoints, imgs, i) ==
    IF i > Len(imgs) THEN snapPoints
    ELSE ForEachImage(PushImage(snapPoints, imgs[i]), imgs, i + 1)

getSnapPoints(excludeId) ==
    ForEachImage(CanvasPoints, OtherImages(excludeId), 1)

-----------------------------------------------------------------------------
(* applySnapping, lines 291-367 *)

\* Mutant: the flag is not consulted.
SnapDisabled_IgnoresFlag ==
    canvasSize.width = 0 \/ canvasSize.height = 0

\* Mutant: only a canvas with both dimensions zero counts as empty.
SnapDisabled_BothZero ==
    ~snapEnabled \/ (canvasSize.width = 0 /\ canvasSize.height = 0)

SnapDisabled ==
    ~snapEnabled \/ canvasSize.width = 0 \/ canvasSize.height = 0

\* Mutant: the y coordinates are snapped against the vertical points.
snapScenarios_OneAxis(snapPoints, newX, newY, width, height) ==
    LET V == snapPoints.vertical
    IN << [ x |-> snapToValue(newX, V, SNAP_TOLERANCE),
            y |-> snapToValue(newY, V, SNAP_TOLERANCE),
            priority |-> 1 ],
          [ x |-> snapToValue(newX + width, V, SNAP_TOLERANCE) - width,
            y |-> snapToValue(newY, V, SNAP_TOLERANCE),
            priority |-> 1 ],
          [ x |-> snapToValue(newX + Half(width), V, SNAP_TOLERANCE)
                     - Half(width),
            y |-> snapToValue(newY + Half(height), V, SNAP_TOLERANCE)
                     - Half(height),
            priority |-> 2 ],
          [ x |-> snapToValue(newX, V, SNAP_TOLERANCE),
            y |-> snapToValue(newY + height, V, SNAP_TOLERANCE) - height,
            priority |-> 1 ] >>

snapScenarios(snapPoints, newX, newY, width, height) ==
    LET left    == newX
        right   == newX + width
        centerX == newX + Half(width)
        top     == newY
        bottom  == newY + height
        centerY == newY + Half(height)
        V == snapPoints.vertical
        H == snapPoints.horizontal
    IN << [ x |-> snapToValue(left, V, SNAP_TOLERANCE),
            y |-> snapToValue(top, H, SNAP_TOLERANCE),
            priority |-> 1 ],
          [ x |-> snapToValue(right, V, SNAP_TOLERANCE) - width,
            y |-> snapToValue(top, H, SNAP_TOLERANCE),
            priority |-> 1 ],
          [ x |-> snapToValue(centerX, V, SNAP_TOLERANCE) - Half(width),
            y |-> snapToValue(centerY, H, SNAP_TOLERANCE) - Half(height),
            priority |-> 2 ],
          [ x |-> snapToValue(left, V, SNAP_TOLERANCE),
            y |-> snapToValue(bottom, H, SNAP_TOLERANCE) - height,
            priority |-> 1 ] >>

\* Mutant: the sign of the horizontal displacement is kept.
distanceX_Signed(scenario, newX) == scenario.x - newX

distanceX(scenario, newX) == Abs(scenario.x - newX)
distanceY(scenario, newY) == Abs(scenario.y - newY)

InTolerance(dx, dy) == dx <= SNAP_TOLERANCE \/ dy <= SNAP_TOLERANCE

\* Mutant: the priority penalty is left out.
adjustedDistance_NoPenalty(scenario, newX, newY) ==
    distanceX(scenario, newX) + distanceY(scenario, newY)

adjustedDistance(scenario, newX, newY) ==
    distanceX(scenario, newX) + distanceY(scenario, newY)
        + (scenario.priority - 1) * 5

\* Mutant: a scenario that only equals the minimum replaces the earlier one.
Improves_OrEqual(adjusted, minDistance) ==
    adjusted <= minDistance /\ adjusted < 50

Improves(adjusted, minDistance) == adjusted < minDistance /\ adjusted < 50

\* Mutant: the coordinates of the chosen scenario are stored crosswise.
VisitScenario_Crossed(best, scenario, newX, newY) ==
    IF /\ InTolerance(distanceX(scenario, newX), distanceY(scenario, newY))
       /\ Improves(adjustedDistance(scenario, newX, newY), best.minDistance)
    THEN [ bestSnap    |-> Pos(scenario.y, scenario.x),
           minDistance |-> adjustedDistance(scenario, newX, newY) ]
    ELSE best

\* One pass of the forEach of lines 345-360 over scenario i, carrying
\* best = [bestSnap, minDistance].
VisitScenario(best, scenario, newX, newY) ==
    IF /\ InTolerance(distanceX(scenario, newX), distanceY(scenario, newY))
       /\ Improves(adjustedDistance(scenario, newX, newY), best.minDistance)
    THEN [ bestSnap    |-> Pos(scenario.x, scenario.y),
           minDistance |-> adjustedDistance(scenario, newX, newY) ]
    ELSE best

RECURSIVE ForEachScenario(_, _, _, _, _)
ForEachScenario(best, scenarios, newX, newY, i) ==
    IF i > Len(scenarios) THEN best
    ELSE ForEachScenario(VisitScenario(best, scenarios[i], newX, newY),
                         scenarios, newX, newY, i + 1)

applySnapping(imageId, newX, newY, width, height) ==
    IF SnapDisabled THEN Pos(newX, newY)
    ELSE ForEachScenario(
             [bestSnap |-> Pos(newX, newY), minDistance |-> Infinity],
             snapScenarios(getSnapPoints(imageId), newX, newY, width, height),
             newX, newY, 1).bestSnap

-----------------------------------------------------------------------------
(* The calls of the engine, each recorded in lastCall *)

NoPoints == [vertical |-> <<>>, horizontal |-> <<>>]

NoCall ==
    [ op |-> "none", imageId |-> NoId, newX |-> 0, newY |-> 0,
      width |-> 0, height |-> 0, out |-> Pos(0, 0), points |-> NoPoints,
      scenarios |-> <<>>, raised |-> FALSE ]

\* No call of the engine is in progress (the event loop is between events).
Idle == lastCall = NoCall

\* lastCall holds the arguments and the result of the call, and what the call
\* computed on its way: the points it fetched and the scenarios it built
\* (none on the early return of line 294).

\* getSnapPoints(excludeId), excludeId an image of the list or omitted.
GetSnapPointsCall(excludeId) ==
    /\ Idle
    /\ lastCall' = [ NoCall EXCEPT !.op = "getSnapPoints",
                                   !.imageId = excludeId,
                                   !.points = getSnapPoints(excludeId) ]
    /\ UNCHANGED <<engineVars, editorVars>>

\* The record of applySnapping(imageId, newX, newY, width, height) returning
\* normally.
SnappingCall(imageId, newX, newY, width, height) ==
    [ op |-> "applySnapping", imageId |-> imageId,
      newX |-> newX, newY |-> newY, width |-> width, height |-> height,
      out |-> applySnapping(imageId, newX, newY, width, height),
      points |-> IF SnapDisabled THEN NoPoints ELSE getSnapPoints(imageId),
      scenarios |-> IF SnapDisabled THEN <<>>
                    ELSE snapScenarios(getSnapPoints(imageId),
                                       newX, newY, width, height),
      raised |-> FALSE ]

\* applySnapping(imageId, newX, newY, width, height) as the drag and transform
\* handlers call it: for an image of the list, at a proposed position.
ApplySnappingCall_SetsGuides(imageId, newX, newY, width, height) ==
    /\ Idle
    /\ lastCall' = SnappingCall(imageId, newX, newY, width, height)
    /\ activeSnapGuides' = [x |-> <<lastCall'.out.x>>, y |-> <<lastCall'.out.y>>]
    /\ UNCHANGED <<engineVars, selectedImageId, cropMode, cropRect, nodes,
                   gesture, pendingLoads, nextId, crops, gestures, event>>

ApplySnappingCall(imageId, newX, newY, width, height) ==
    /\ Idle
    /\ lastCall' = SnappingCall(imageId, newX, newY, width, height)
    /\ UNCHANGED <<engineVars, editorVars>>

\* What the caller gets when the try block fails: the catch clause logs the
\* error and returns the proposed position; a point set that is missing is
\* answered the same way by the check in front of the scenarios.
CatchClause_Rethrows(newX, newY) == [raised |-> TRUE, out |-> Pos(0, 0)]

CatchClause(newX, newY) == [raised |-> FALSE, out |-> Pos(newX, newY)]

MissingPoints(newX, newY) == [raised |-> FALSE, out |-> Pos(newX, newY)]

Failures == {"throws", "missing"}

\* applySnapping when its try block fails: getSnapPoints or a scenario throws
\* ("throws") or the point set comes back missing ("missing"). The guard in
\* front of the try block is passed first, so snapping is on.
ApplySnappingFails(imageId, newX, newY, width, height, failure) ==
    /\ Idle
    /\ ~SnapDisabled
    /\ LET result == IF failure = "throws" THEN CatchClause(newX, newY)
                     ELSE MissingPoints(newX, newY)
       IN lastCall' = [ NoCall EXCEPT !.op = failure, !.imageId = imageId,
                                      !.newX = newX, !.newY = newY,
                                      !.width = width, !.height = height,
                                      !.out = result.out,
                                      !.raised = result.raised ]
    /\ UNCHANGED <<engineVars, editorVars>>

\* The call returns to its caller; the engine keeps nothing of it.
Return ==
    /\ ~Idle
    /\ lastCall' = NoCall
    /\ UNCHANGED <<engineVars, editorVars>>

PlacedIds == { canvasImages[i].id : i \in DOMAIN canvasImages }

NoGuides == [x |-> <<>>, y |-> <<>>]
\* No pointer interaction; during one, the image it is on and, for a resize,
\* the node's scaled size (width() * scaleX(), height() * scaleY()) and its
\* rotation.
NoGesture ==
    [kind |-> "none", id |-> NoId, width |-> 0, height |-> 0, rotation |-> 0]
NoEvent ==
    [ type |-> "none", id |-> NoId, x |-> 0, y |-> 0,
      width |-> 0, height |-> 0 ]

\* Between events, with every node where its image is.
EditorAtRest ==
    /\ selectedImageId = NoId
    /\ cropMode = FALSE
    /\ cropRect = <<>>
    /\ activeSnapGuides = NoGuides
    /\ nodes = [ id \in PlacedIds |->
                   LET img == CHOOSE img \in Range(canvasImages) : img.id = id
                   IN Pos(img.x, img.y) ]
    /\ gesture = NoGesture
    /\ pendingLoads = {}
    /\ nextId = MaxImages + 1
    /\ crops = 0
    /\ gestures = 0
    /\ event = NoEvent

SnapInit ==
    /\ canvasImages \in ImageLists
    /\ canvasSize \in CanvasSizes
    /\ snapEnabled \in BOOLEAN
    /\ EditorAtRest
    /\ lastCall = NoCall

SnapNext ==
    \/ \E id \in PlacedIds \cup {NoId} : GetSnapPointsCall(id)
    \/ \E id \in PlacedIds, px \in ProposedXs, py \in ProposedYs, s \in Sizes :
          ApplySnappingCall(id, px, py, s[1], s[2])
    \/ \E id \in PlacedIds, px \in ProposedXs, py \in ProposedYs, s \in Sizes,
          failure \in Failures :
          ApplySnappingFails(id, px, py, s[1], s[2], failure)
    \/ Return

SnapSpec == SnapInit /\ [][SnapNext]_vars

-----------------------------------------------------------------------------
(* The editor: its state after construction and its event handlers *)

\* Crop sessions a behaviour may open.
MaxCrops == 1

\* Drags and resizes a behaviour may begin.
MaxGestures == 1

\* Image loads of applyCrop that may be pending at a time.
MaxPending == 1

\* What addImageToCanvas may add: <<x, y, width, height>>, x and y from
\* Math.random() * 200 and the size from the page imported.
Imports == {<<100, 100, 200, 150>>, <<4, 4, 50, 50>>}

\* Where the pointer may take the node of a dragged image.
DragPlaces == {<<105, 98>>, <<10, 6>>, <<10, 12>>, <<400, 300>>}

\* What the Transformer may make of the node it resizes:
\* <<x, y, scaled width, scaled height, rotation>>.
TransformBoxes ==
    {<<105, 98, 40, 40, 0>>, <<400, 300, 50, 50, 0>>, <<204, 104, 200, 150, 90>>}

Init ==
    /\ canvasImages = <<>>
    /\ canvasSize = [width |-> 800, height |-> 600]
    /\ snapEnabled = TRUE
    /\ selectedImageId = NoId
    /\ cropMode = FALSE
    /\ cropRect = <<>>
    /\ activeSnapGuides = NoGuides
    /\ nodes = <<>>
    /\ gesture = NoGesture
    /\ pendingLoads = {}
    /\ nextId = 1
    /\ crops = 0
    /\ gestures = 0
    /\ event = NoEvent
    /\ lastCall = NoCall

\* canvasImages.find(img => img.id === id), for a placed id.
FindImage(id) == CHOOSE img \in Range(canvasImages) : img.id = id

Event(type, id, px, py, w, h) ==
    [type |-> type, id |-> id, x |-> px, y |-> py, width |-> w, height |-> h]

\* { ...img, ...newAttrs }
Merge(img, newAttrs) ==
    [ f \in DOMAIN img |-> IF f \in DOMAIN newAttrs THEN newAttrs[f] ELSE img[f] ]

updateImage(images, id, newAttrs) ==
    [ i \in DOMAIN images |->
        IF images[i].id = id THEN Merge(images[i], newAttrs) ELSE images[i] ]

\* Mutant: the change is applied in crop mode too.
OnChange_InCropMode(id, newAttrs) == updateImage(canvasImages, id, newAttrs)

\* onChange={(newAttrs) => !cropMode && updateImage(image.id, newAttrs)}
OnChange(id, newAttrs) ==
    IF ~cropMode THEN updateImage(canvasImages, id, newAttrs) ELSE canvasImages

\* react-konva hands the node the x and y props that changed with a render.
SyncNodes(images) ==
    [ id \in DOMAIN nodes |->
        LET old == FindImage(id)
            new == CHOOSE img \in Range(images) : img.id = id
        IN Pos(IF new.x # old.x THEN new.x ELSE nodes[id].x,
               IF new.y # old.y THEN new.y ELSE nodes[id].y) ]

addImageToCanvas(px, py, width, height) ==
    /\ gesture = NoGesture
    /\ nextId <= MaxImages
    /\ canvasImages' =
           Append(canvasImages, Image(nextId, px, py, width, height, 0, 0))
    /\ nodes' = [ id \in DOMAIN nodes \cup {nextId} |->
                    IF id = nextId THEN Pos(px, py) ELSE nodes[id] ]
    /\ nextId' = nextId + 1
    /\ event' = Event("addImageToCanvas", nextId, px, py, width, height)
    /\ UNCHANGED <<canvasSize, snapEnabled, selectedImageId, cropMode, cropRect,
                   activeSnapGuides, gesture, pendingLoads, crops, gestures,
                   lastCall>>

\* onClick / onTap of an image: onSelect={() => !cropMode && selectImage(id)}
selectImage(id) ==
    /\ gesture = NoGesture
    /\ id \in PlacedIds
    /\ selectedImageId' = IF ~cropMode THEN id ELSE selectedImageId
    /\ event' = Event("selectImage", id, 0, 0, 0, 0)
    /\ UNCHANGED <<engineVars, cropMode, cropRect, activeSnapGuides, nodes,
                   gesture, pendingLoads, nextId, crops, gestures, lastCall>>

\* A press on the empty stage.
checkDeselect ==
    /\ gesture = NoGesture
    /\ selectedImageId' = NoId
    /\ event' = Event("checkDeselect", NoId, 0, 0, 0, 0)
    /\ UNCHANGED <<engineVars, cropMode, cropRect, activeSnapGuides, nodes,
                   gesture, pendingLoads, nextId, crops, gestures, lastCall>>

\* The snap button of the toolbar.
ToggleSnap ==
    /\ gesture = NoGesture
    /\ snapEnabled' = ~snapEnabled
    /\ event' = Event("toggleSnap", NoId, 0, 0, 0, 0)
    /\ UNCHANGED <<canvasImages, canvasSize, editorVarsButEvent, lastCall>>

\* points.filter(v => Math.abs(v - at) <= snapTolerance * 3)
NearPoints(points, at) ==
    SelectSeq(points, LAMBDA v : Abs(v - at) <= SNAP_TOLERANCE * 3)

\* The guides onDragStart shows: the candidate points near the node.
DragStartGuides(id, node) ==
    LET snapPoints == getSnapPoints(id)
    IN [ x |-> NearPoints(snapPoints.vertical, node.x),
         y |-> NearPoints(snapPoints.horizontal, node.y) ]

\* The edges of a rectangle, as the handlers hand them to onSnapGuides.
EdgeGuides(at, width, height) ==
    [x |-> <<at.x, at.x + width>>, y |-> <<at.y, at.y + height>>]

\* The guides after onDragMove: the node has been set to the snapped position
\* when the handler compares the two, so the test of the update is on the
\* node as moved and not on the node as dragged.
DragMoveGuides(snapped, dragged, image) ==
    LET node == snapped
    IN IF Abs(snapped.x - node.x) > 1 \/ Abs(snapped.y - node.y) > 1
       THEN EdgeGuides(snapped, image.width, image.height)
       ELSE activeSnapGuides

onDragStart(id) ==
    /\ gesture = NoGesture
    /\ id \in PlacedIds
    /\ gestures < MaxGestures
    /\ gestures' = gestures + 1
    /\ activeSnapGuides' = DragStartGuides(id, nodes[id])
    /\ gesture' = [NoGesture EXCEPT !.kind = "drag", !.id = id]
    /\ event' = Event("dragStart", id, nodes[id].x, nodes[id].y,
                      FindImage(id).width, FindImage(id).height)
    /\ UNCHANGED <<engineVars, selectedImageId, cropMode, cropRect, nodes,
                   pendingLoads, nextId, crops, lastCall>>

\* The pointer takes the node to (px, py) and the handler runs.
onDragMove(id, px, py) ==
    /\ gesture.kind = "drag" /\ gesture.id = id
    /\ LET image == FindImage(id)
           snapped == applySnapping(id, px, py, image.width, image.height)
       IN /\ nodes' = [nodes EXCEPT ![id] = snapped]
          /\ activeSnapGuides' = DragMoveGuides(snapped, Pos(px, py), image)
          /\ event' = Event("dragMove", id, px, py, image.width, image.height)
    /\ UNCHANGED <<engineVars, selectedImageId, cropMode, cropRect, gesture,
                   pendingLoads, nextId, crops, gestures, lastCall>>

\* The pointer is released with the node where the last move left it.
onDragEnd(id) ==
    /\ gesture.kind = "drag" /\ gesture.id = id
    /\ LET image == FindImage(id)
           node == nodes[id]
           snapped == applySnapping(id, node.x, node.y,
                                    image.width, image.height)
           images == OnChange(id, [x |-> snapped.x, y |-> snapped.y])
       IN /\ canvasImages' = images
          /\ nodes' = SyncNodes(images)
          /\ event' = Event("dragEnd", id, node.x, node.y,
                            image.width, image.height)
    /\ activeSnapGuides' = NoGuides
    /\ gesture' = NoGesture
    /\ UNCHANGED <<canvasSize, snapEnabled, selectedImageId, cropMode, cropRect,
                   pendingLoads, nextId, crops, gestures, lastCall>>

\* Mutant: the catch clause logs the error and leaves the guides.
onDragEndCaught_KeepsGuides(id) ==
    /\ gesture.kind = "drag" /\ gesture.id = id
    /\ gesture' = NoGesture
    /\ event' = Event("dragEndCaught", id, nodes[id].x, nodes[id].y,
                      FindImage(id).width, FindImage(id).height)
    /\ UNCHANGED <<engineVars, selectedImageId, cropMode, cropRect, nodes,
                   activeSnapGuides, pendingLoads, nextId, crops, gestures,
                   lastCall>>

\* onDragEnd when its try block throws before onChange: the catch clause
\* clears the guides.
onDragEndCaught(id) ==
    /\ gesture.kind = "drag" /\ gesture.id = id
    /\ activeSnapGuides' = NoGuides
    /\ gesture' = NoGesture
    /\ event' = Event("dragEndCaught", id, nodes[id].x, nodes[id].y,
                      FindImage(id).width, FindImage(id).height)
    /\ UNCHANGED <<engineVars, selectedImageId, cropMode, cropRect, nodes,
                   pendingLoads, nextId, crops, gestures, lastCall>>

\* snapPoints.slice(0, 10)
Slice(points, n) == SubSeq(points, 1, IF Len(points) < n THEN Len(points) ELSE n)

\* The guides onTransformStart shows: the first candidate points of each axis.
TransformStartGuides(id) ==
    LET snapPoints == getSnapPoints(id)
    IN [ x |-> Slice(snapPoints.vertical, 10),
         y |-> Slice(snapPoints.horizontal, 10) ]

\* node.getClientRect(): the bounding box of the node, scaled and turned about
\* its origin (by 0 or 90 degrees).
getClientRect(node, width, height, rotation) ==
    IF rotation = 90
    THEN [x |-> node.x - height, y |-> node.y, width |-> height, height |-> width]
    ELSE [x |-> node.x, y |-> node.y, width |-> width, height |-> height]

\* Mutant: the node is adjusted and the guides are set on every event.
Adjusts_Always(box, snapped) == TRUE

\* The test of onTransform: snapping moved the box by more than 1 on an axis.
Adjusts(box, snapped) ==
    Abs(box.x - snapped.x) > 1 \/ Abs(box.y - snapped.y) > 1

\* Math.max(5, v)
AtLeast(min, v) == IF v < min THEN min ELSE v

\* The Transformer is rendered for the selected image outside crop mode.
isSelected(id) == id = selectedImageId /\ ~cropMode

onTransformStart(id) ==
    /\ gesture = NoGesture
    /\ id \in PlacedIds
    /\ isSelected(id)
    /\ gestures < MaxGestures
    /\ gestures' = gestures + 1
    /\ activeSnapGuides' = TransformStartGuides(id)
    /\ LET image == FindImage(id)
       IN /\ gesture' = [ kind |-> "transform", id |-> id,
                          width |-> image.width, height |-> image.height,
                          rotation |-> image.rotation ]
          /\ event' = Event("transformStart", id, nodes[id].x, nodes[id].y,
                            image.width, image.height)
    /\ UNCHANGED <<engineVars, selectedImageId, cropMode, cropRect, nodes,
                   pendingLoads, nextId, crops, lastCall>>

\* The Transformer gives the node its new position, scale and rotation and
\* the handler runs.
onTransform(id, px, py, width, height, rotation) ==
    /\ gesture.kind = "transform" /\ gesture.id = id
    /\ LET box == getClientRect(Pos(px, py), width, height, rotation)
           snapped == applySnapping(id, box.x, box.y, box.width, box.height)
       IN /\ nodes' = [nodes EXCEPT ![id] =
                          IF Adjusts(box, snapped)
                          THEN Pos(px + (snapped.x - box.x),
                                   py + (snapped.y - box.y))
                          ELSE Pos(px, py)]
          /\ activeSnapGuides' =
                 IF Adjusts(box, snapped)
                 THEN EdgeGuides(snapped, box.width, box.height)
                 ELSE activeSnapGuides
          /\ event' = Event("transform", id, box.x, box.y, box.width, box.height)
    /\ gesture' = [gesture EXCEPT !.width = width, !.height = height,
                                  !.rotation = rotation]
    /\ UNCHANGED <<engineVars, selectedImageId, cropMode, cropRect,
                   pendingLoads, nextId, crops, gestures, lastCall>>

onTransformEnd(id) ==
    /\ gesture.kind = "transform" /\ gesture.id = id
    /\ LET node == nodes[id]
           newWidth == AtLeast(5, gesture.width)
           newHeight == AtLeast(5, gesture.height)
           snapped == applySnapping(id, node.x, node.y, newWidth, newHeight)
           images == OnChange(id, [ x |-> snapped.x, y |-> snapped.y,
                                    width |-> newWidth, height |-> newHeight,
                                    rotation |-> gesture.rotation ])
       IN /\ canvasImages' = images
          /\ nodes' = SyncNodes(images)
          /\ event' = Event("transformEnd", id, node.x, node.y,
                            newWidth, newHeight)
    /\ activeSnapGuides' = NoGuides
    /\ gesture' = NoGesture
    /\ UNCHANGED <<canvasSize, snapEnabled, selectedImageId, cropMode, cropRect,
                   pendingLoads, nextId, crops, gestures, lastCall>>

Rect(px, py, width, height) ==
    [x |-> px, y |-> py, width |-> width, height |-> height]

\* The crop rectangle cropImage opens on the selected image.
OpeningCropRect(image) ==
    Rect(image.x + 20, image.y + 20, image.width - 40, image.height - 40)

\* applyCrop: the crop is made in the onload callback of an Image that is
\* given the selected image's src; the callback keeps the id and the crop
\* rectangle of the render the button was pressed in.
applyCrop ==
    IF selectedImageId # NoId /\ cropRect # <<>>
          /\ selectedImageId \in PlacedIds
    THEN pendingLoads \cup {[id |-> selectedImageId, rect |-> cropRect[1]]}
    ELSE pendingLoads

\* The Crop / Apply Crop button of the toolbar.
cropImage ==
    /\ gesture = NoGesture
    /\ IF selectedImageId # NoId /\ ~cropMode
       THEN /\ crops < MaxCrops
            /\ crops' = crops + 1
            /\ cropMode' = TRUE
            /\ cropRect' = IF selectedImageId \in PlacedIds
                           THEN <<OpeningCropRect(FindImage(selectedImageId))>>
                           ELSE cropRect
            /\ UNCHANGED pendingLoads
       ELSE IF cropMode
       THEN /\ Cardinality(pendingLoads) < MaxPending
            /\ pendingLoads' = applyCrop
            /\ UNCHANGED <<cropMode, cropRect, crops>>
       ELSE UNCHANGED <<cropMode, cropRect, crops, pendingLoads>>
    /\ event' = Event(IF cropMode THEN "applyCrop" ELSE "cropImage",
                      selectedImageId, 0, 0, 0, 0)
    /\ UNCHANGED <<engineVars, selectedImageId, activeSnapGuides, nodes,
                   gesture, nextId, gestures, lastCall>>

\* img.onload of applyCrop, with the 2d context it was given: the image is
\* replaced by its crop and the crop session closed.  It may run between any
\* two events.
onload(load) ==
    /\ load \in pendingLoads
    /\ LET images == updateImage(canvasImages, load.id,
                          [ src |-> 1, x |-> load.rect.x, y |-> load.rect.y,
                            width |-> load.rect.width,
                            height |-> load.rect.height ])
       IN /\ canvasImages' = images
          /\ nodes' = SyncNodes(images)
    /\ cropMode' = FALSE
    /\ cropRect' = <<>>
    /\ pendingLoads' = pendingLoads \ {load}
    /\ event' = Event("onload", load.id, load.rect.x, load.rect.y,
                      load.rect.width, load.rect.height)
    /\ UNCHANGED <<canvasSize, snapEnabled, selectedImageId, activeSnapGuides,
                   gesture, nextId, crops, gestures, lastCall>>

\* Mutant: the crop rectangle is left behind.
cancelCrop_KeepsRect ==
    /\ gesture = NoGesture
    /\ cropMode
    /\ cropMode' = FALSE
    /\ event' = Event("cancelCrop", NoId, 0, 0, 0, 0)
    /\ UNCHANGED <<engineVars, selectedImageId, cropRect, activeSnapGuides,
                   nodes, gesture, pendingLoads, nextId, crops, gestures,
                   lastCall>>

\* The Cancel button, rendered in crop mode.
cancelCrop ==
    /\ gesture = NoGesture
    /\ cropMode
    /\ cropMode' = FALSE
    /\ cropRect' = <<>>
    /\ event' = Event("cancelCrop", NoId, 0, 0, 0, 0)
    /\ UNCHANGED <<engineVars, selectedImageId, activeSnapGuides, nodes,
                   gesture, pendingLoads, nextId, crops, gestures, lastCall>>

\* Where the crop rectangle may be dragged, and what its Transformer may make
\* of it: <<x, y, scaled width, scaled height>>.
CropPlaces == {<<110, 110>>}
CropBoxes == {<<120, 120, 100, 80>>, <<20, 20, 4, 4>>}

\* onDragEnd of the crop rectangle.
cropRectDragEnd(px, py) ==
    /\ gesture = NoGesture
    /\ cropMode /\ cropRect # <<>>
    /\ cropRect' = <<[cropRect[1] EXCEPT !.x = px, !.y = py]>>
    /\ event' = Event("cropRectDragEnd", NoId, px, py, 0, 0)
    /\ UNCHANGED <<engineVars, selectedImageId, cropMode, activeSnapGuides,
                   nodes, gesture, pendingLoads, nextId, crops, gestures,
                   lastCall>>

\* onTransformEnd of the crop rectangle's Transformer.
cropRectTransformEnd(px, py, width, height) ==
    /\ gesture = NoGesture
    /\ cropMode /\ cropRect # <<>>
    /\ cropRect' = <<Rect(px, py, AtLeast(10, width), AtLeast(10, height))>>
    /\ event' = Event("cropRectTransformEnd", NoId, px, py, width, height)
    /\ UNCHANGED <<engineVars, selectedImageId, cropMode, activeSnapGuides,
                   nodes, gesture, pendingLoads, nextId, crops, gestures,
                   lastCall>>

\* Mutant: the first placed image is removed, whichever is selected.
deleteSelected_First ==
    /\ gesture = NoGesture
    /\ ~cropMode
    /\ IF selectedImageId # NoId
       THEN /\ canvasImages' = Tail(canvasImages)
            /\ nodes' = [ id \in DOMAIN nodes \ {Head(canvasImages).id} |->
                            nodes[id] ]
            /\ selectedImageId' = NoId
       ELSE UNCHANGED <<canvasImages, nodes, selectedImageId>>
    /\ event' = Event("deleteSelected", selectedImageId, 0, 0, 0, 0)
    /\ UNCHANGED <<canvasSize, snapEnabled, cropMode, cropRect,
                   activeSnapGuides, gesture, pendingLoads, nextId, crops,
                   gestures, lastCall>>

\* Mutant: the image is removed and stays selected.
deleteSelected_KeepsSelection ==
    /\ gesture = NoGesture
    /\ ~cropMode
    /\ IF selectedImageId # NoId
       THEN /\ canvasImages' =
                  SelectSeq(canvasImages, LAMBDA img : img.id # selectedImageId)
            /\ nodes' = [ id \in DOMAIN nodes \ {selectedImageId} |-> nodes[id] ]
       ELSE UNCHANGED <<canvasImages, nodes>>
    /\ UNCHANGED selectedImageId
    /\ event' = Event("deleteSelected", selectedImageId, 0, 0, 0, 0)
    /\ UNCHANGED <<canvasSize, snapEnabled, cropMode, cropRect,
                   activeSnapGuides, gesture, pendingLoads, nextId, crops,
                   gestures, lastCall>>

\* The Delete button, disabled in crop mode.
deleteSelected ==
    /\ gesture = NoGesture
    /\ ~cropMode
    /\ IF selectedImageId # NoId
       THEN /\ canvasImages' =
                  SelectSeq(canvasImages, LAMBDA img : img.id # selectedImageId)
            /\ nodes' = [ id \in DOMAIN nodes \ {selectedImageId} |-> nodes[id] ]
            /\ selectedImageId' = NoId
       ELSE UNCHANGED <<canvasImages, nodes, selectedImageId>>
    /\ event' = Event("deleteSelected", selectedImageId, 0, 0, 0, 0)
    /\ UNCHANGED <<canvasSize, snapEnabled, cropMode, cropRect,
                   activeSnapGuides, gesture, pendingLoads, nextId, crops,
                   gestures, lastCall>>

Next ==
    \/ \E i \in Imports : addImageToCanvas(i[1], i[2], i[3], i[4])
    \/ \E id \in PlacedIds : selectImage(id)
    \/ checkDeselect
    \/ ToggleSnap
    \/ \E id \in PlacedIds : onDragStart(id)
    \/ \E id \in PlacedIds, p \in DragPlaces : onDragMove(id, p[1], p[2])
    \/ \E id \in PlacedIds : onDragEnd(id)
    \/ \E id \in PlacedIds : onDragEndCaught(id)
    \/ \E id \in PlacedIds : onTransformStart(id)
    \/ \E id \in PlacedIds, b \in TransformBoxes :
          onTransform(id, b[1], b[2], b[3], b[4], b[5])
    \/ \E id \in PlacedIds : onTransformEnd(id)
    \/ cropImage
    \/ \E load \in pendingLoads : onload(load)
    \/ cancelCrop
    \/ \E p \in CropPlaces : cropRectDragEnd(p[1], p[2])
    \/ \E b \in CropBoxes : cropRectTransformEnd(b[1], b[2], b[3], b[4])
    \/ deleteSelected

Spec == Init /\ [][Next]_vars

\* The browser runs the onload callback of an Image whose src was set, once
\* the image has loaded; the presses and pointer moves of the user are under
\* no obligation.
FairSpec == Spec /\ WF_vars(\E load \in pendingLoads : onload(load))

-----------------------------------------------------------------------------
(* Vocabulary of the properties *)

GotPoints == lastCall.op = "getSnapPoints"
Snapped   == lastCall.op = "applySnapping"

\* The call fetched candidate points (getSnapPoints ran inside it).
FetchedPoints == GotPoints \/ (Snapped /\ ~SnapDisabled)

\* Indices of the placed images other than id, and the k-th of them.
OtherIndices(id) == { i \in DOMAIN canvasImages : canvasImages[i].id # id }
NthOther(id, k) ==
    CHOOSE i \in OtherIndices(id) :
        Cardinality({ j \in OtherIndices(id) : j < i }) = k - 1

VerticalOf(img)   == <<img.x, img.x + Half(img.width), img.x + img.width>>
HorizontalOf(img) == <<img.y, img.y + Half(img.height), img.y + img.height>>

\* The k-th block of three points after the three canvas points.
Block(points, k) == SubSeq(points, 3 * k + 1, 3 * k + 3)
Blocks(points)   == (Len(points) - 3) \div 3

-----------------------------------------------------------------------------
(* C1: getSnapPoints(id), called for a placed image id directly or from     *)
(* applySnapping, returns no point derived from image id: each sequence     *)
(* holds the three canvas points and one block of three points per placed   *)
(* image other than id, and every block is the block of an image whose id   *)
(* differs from id.                                                         *)
C1_ExcludesSelf ==
    (FetchedPoints /\ lastCall.imageId \in PlacedIds) =>
        LET id == lastCall.imageId
            V  == lastCall.points.vertical
            H  == lastCall.points.horizontal
        IN /\ Len(V) = 3 + 3 * (Len(canvasImages) - 1)
           /\ Len(H) = Len(V)
           /\ \A k \in 1..Blocks(V) :
                 \E i \in DOMAIN canvasImages :
                    /\ canvasImages[i].id # id
                    /\ Block(V, k) = VerticalOf(canvasImages[i])
                    /\ Block(H, k) = HorizontalOf(canvasImages[i])

\* Reached: points were fetched for a placed image while another image with
\* different edges stands on the canvas.
C1_Witness ==
    /\ FetchedPoints
    /\ lastCall.imageId \in PlacedIds
    /\ \E i, j \in DOMAIN canvasImages :
          /\ canvasImages[i].id = lastCall.imageId
          /\ canvasImages[j].id # lastCall.imageId
          /\ VerticalOf(canvasImages[i]) # VerticalOf(canvasImages[j])
          /\ HorizontalOf(canvasImages[i]) # HorizontalOf(canvasImages[j])

(* C8: getSnapPoints(excludeId) returns exactly <<0, canvasWidth,           *)
(* canvasWidth/2>> followed by x, x + width/2, x + width of every placed    *)
(* image other than excludeId in list order, and likewise the horizontal    *)
(* sequence from the canvas height and y, y + height/2, y + height;         *)
(* duplicates are kept, so each has length 3 + 3 * (number of others).      *)
C8_ExactPoints ==
    GotPoints =>
        LET id == lastCall.imageId
            V  == lastCall.points.vertical
            H  == lastCall.points.horizontal
            n  == Cardinality(OtherIndices(id))
        IN /\ Len(V) = 3 + 3 * n
           /\ Len(H) = 3 + 3 * n
           /\ SubSeq(V, 1, 3) = <<0, canvasSize.width, Half(canvasSize.width)>>
           /\ SubSeq(H, 1, 3) = <<0, canvasSize.height, Half(canvasSize.height)>>
           /\ \A k \in 1..n :
                 /\ Block(V, k) = VerticalOf(canvasImages[NthOther(id, k)])
                 /\ Block(H, k) = HorizontalOf(canvasImages[NthOther(id, k)])

\* Reached: getSnapPoints returned the points of two other images that differ
\* from each other, with a duplicate coordinate kept in the result.
C8_Witness ==
    /\ GotPoints
    /\ Cardinality(OtherIndices(lastCall.imageId)) = 2
    /\ VerticalOf(canvasImages[NthOther(lastCall.imageId, 1)])
          # VerticalOf(canvasImages[NthOther(lastCall.imageId, 2)])
    /\ \E a, b \in DOMAIN lastCall.points.horizontal :
          a # b /\ lastCall.points.horizontal[a] = lastCall.points.horizontal[b]

-----------------------------------------------------------------------------
\* The proposed position of the recorded applySnapping call.
Proposed == Pos(lastCall.newX, lastCall.newY)

\* The points applySnapping would fetch for the recorded call (whether or not
\* the early return let it).
CandidateV == getSnapPoints(lastCall.imageId).vertical
CandidateH == getSnapPoints(lastCall.imageId).horizontal

\* Some candidate point lies within tolerance of, and differs from, the
\* proposed left edge, and likewise for the proposed top edge: with the early
\* return out of the way, every edge scenario moves the rectangle.
EdgesWouldSnap ==
    /\ \E i \in DOMAIN CandidateV :
          /\ CandidateV[i] # lastCall.newX
          /\ Abs(CandidateV[i] - lastCall.newX) <= SNAP_TOLERANCE
          /\ \A j \in 1..(i - 1) :
                Abs(CandidateV[j] - lastCall.newX) > SNAP_TOLERANCE
    /\ \E i \in DOMAIN CandidateH :
          /\ CandidateH[i] # lastCall.newY
          /\ Abs(CandidateH[i] - lastCall.newY) <= SNAP_TOLERANCE
          /\ \A j \in 1..(i - 1) :
                Abs(CandidateH[j] - lastCall.newY) > SNAP_TOLERANCE

(* C2: with the snap flag off, applySnapping(id, x, y, w, h) returns        *)
(* exactly {x, y}, whatever the placed images and the canvas frame are.     *)
C2_DisabledIsIdentity ==
    (Snapped /\ ~snapEnabled) => lastCall.out = Proposed

\* Reached: a call with the flag off, on a canvas with area, for a rectangle
\* whose left and top edges both have a candidate point within tolerance.
C2_Witness ==
    /\ Snapped
    /\ ~snapEnabled
    /\ canvasSize.width # 0 /\ canvasSize.height # 0
    /\ EdgesWouldSnap

(* C3: on a canvas frame of zero area (width 0 or height 0) applySnapping   *)
(* returns the proposed position unchanged, also with snapping enabled and  *)
(* other images within tolerance.                                           *)
C3_ZeroCanvasIsIdentity ==
    (Snapped /\ (canvasSize.width = 0 \/ canvasSize.height = 0)) =>
        lastCall.out = Proposed

\* Reached: a call with the flag on, on a canvas of zero width or height but
\* not both, for a rectangle whose left and top edges both have a candidate
\* point within tolerance.
C3_Witness ==
    /\ Snapped
    /\ snapEnabled
    /\ (canvasSize.width = 0) # (canvasSize.height = 0)
    /\ EdgesWouldSnap

-----------------------------------------------------------------------------
\* First-match snapping, stated on the indices: the points within tolerance
\* of value, and the one of them that comes first in the sequence.
Matches(value, points) ==
    { i \in DOMAIN points : Abs(value - points[i]) <= SNAP_TOLERANCE }
FirstMatch(value, points) ==
    IF Matches(value, points) = {} THEN value
    ELSE points[CHOOSE i \in Matches(value, points) :
                    \A j \in Matches(value, points) : i <= j]

\* The six key coordinates of the proposed rectangle of the recorded call.
KeyLeft    == lastCall.newX
KeyRight   == lastCall.newX + lastCall.width
KeyCenterX == lastCall.newX + Half(lastCall.width)
KeyTop     == lastCall.newY
KeyBottom  == lastCall.newY + lastCall.height
KeyCenterY == lastCall.newY + Half(lastCall.height)

\* The call went past the early return and built its scenarios.
Resolved == Snapped /\ ~SnapDisabled

(* C9: snapToValue(value, points, tolerance) returns the first point in     *)
(* sequence order whose absolute difference from value is <= tolerance (a   *)
(* point exactly tolerance away matches), even when a later point is        *)
(* strictly nearer, and returns value unchanged when no point is within     *)
(* tolerance.  Stated on the six snapToValue results of a resolution call.  *)
C9_FirstMatchWins ==
    Resolved =>
        LET V == lastCall.points.vertical
            H == lastCall.points.horizontal
            S == lastCall.scenarios
        IN /\ S[1].x = FirstMatch(KeyLeft, V)
           /\ S[2].x + lastCall.width = FirstMatch(KeyRight, V)
           /\ S[3].x + Half(lastCall.width) = FirstMatch(KeyCenterX, V)
           /\ S[4].x = FirstMatch(KeyLeft, V)
           /\ S[1].y = FirstMatch(KeyTop, H)
           /\ S[2].y = FirstMatch(KeyTop, H)
           /\ S[3].y + Half(lastCall.height) = FirstMatch(KeyCenterY, H)
           /\ S[4].y + lastCall.height = FirstMatch(KeyBottom, H)

\* Reached: the left edge snapped to a point exactly tolerance away although
\* a later point of the sequence is strictly nearer, while the right edge had
\* no point within tolerance and stayed.
C9_Witness ==
    /\ Resolved
    /\ \E i, j \in DOMAIN lastCall.points.vertical :
          /\ i < j
          /\ lastCall.scenarios[1].x = lastCall.points.vertical[i]
          /\ Abs(KeyLeft - lastCall.points.vertical[i]) = SNAP_TOLERANCE
          /\ Abs(KeyLeft - lastCall.points.vertical[j]) < SNAP_TOLERANCE
          /\ \A k \in 1..(i - 1) :
                Abs(KeyLeft - lastCall.points.vertical[k]) > SNAP_TOLERANCE
    /\ Matches(KeyRight, lastCall.points.vertical) = {}
    /\ lastCall.scenarios[2].x + lastCall.width = KeyRight

-----------------------------------------------------------------------------
\* Displacement and adjusted score of the i-th recorded scenario.
ScenarioDX(i) == Abs(lastCall.scenarios[i].x - lastCall.newX)
ScenarioDY(i) == Abs(lastCall.scenarios[i].y - lastCall.newY)
ScenarioRaw(i) == ScenarioDX(i) + ScenarioDY(i)
ScenarioScore(i) == ScenarioRaw(i) + (lastCall.scenarios[i].priority - 1) * 5
ScenarioPos(i) == Pos(lastCall.scenarios[i].x, lastCall.scenarios[i].y)

\* The scenarios that pass both gates.
Qualifying ==
    { i \in DOMAIN lastCall.scenarios :
        /\ (ScenarioDX(i) <= SNAP_TOLERANCE \/ ScenarioDY(i) <= SNAP_TOLERANCE)
        /\ ScenarioScore(i) < 50 }

(* C10: with snapping enabled on a canvas with area, applySnapping returns  *)
(* the position of a scenario of minimum adjusted score (distanceX +        *)
(* distanceY + (priority - 1) * 5) among the four scenarios left, right,    *)
(* center, bottom (priorities 1, 1, 2, 1) that are eligible (distanceX <=   *)
(* tolerance or distanceY <= tolerance) with adjusted score < 50, and the   *)
(* proposed position when no scenario passes both gates.                    *)
C10_MinimumScoreScenario ==
    Resolved =>
        /\ Len(lastCall.scenarios) = 4
        /\ [i \in 1..4 |-> lastCall.scenarios[i].priority] = <<1, 1, 2, 1>>
        /\ IF Qualifying = {}
           THEN lastCall.out = Proposed
           ELSE \E i \in Qualifying :
                   /\ lastCall.out = ScenarioPos(i)
                   /\ \A j \in Qualifying : ScenarioScore(i) <= ScenarioScore(j)

\* Reached: the call moved the rectangle to a scenario other than the
\* left-edge one, and the center scenario, whose raw displacement was the
\* smallest, lost on its penalty.
C10_Witness ==
    /\ Resolved
    /\ lastCall.out # Proposed
    /\ lastCall.out # ScenarioPos(1)
    /\ lastCall.out # ScenarioPos(3)
    /\ \A i \in {1, 2, 4} : ScenarioRaw(3) < ScenarioRaw(i)

-----------------------------------------------------------------------------
\* The proposed position is exactly a pair of candidate snap points.
OnSnapPointPair ==
    /\ lastCall.newX \in Range(CandidateV)
    /\ lastCall.newY \in Range(CandidateH)

(* C4 as stated: if the proposed (x, y) is exactly a snap point pair (x in  *)
(* the vertical sequence, y in the horizontal one), applySnapping returns   *)
(* the same (x, y).                                                         *)
C4_IdempotentOnSnapPoints ==
    (Snapped /\ OnSnapPointPair) => lastCall.out = Proposed

(* C4 as amended: if x is in the vertical sequence and is the first point   *)
(* of it within tolerance of x, and y is in the horizontal sequence and is  *)
(* the first point of it within tolerance of y, applySnapping returns the   *)
(* same (x, y).                                                             *)
C4_IdempotentOnFirstMatches ==
    ( /\ Snapped
      /\ OnSnapPointPair
      /\ FirstMatch(lastCall.newX, CandidateV) = lastCall.newX
      /\ FirstMatch(lastCall.newY, CandidateH) = lastCall.newY )
    => lastCall.out = Proposed

\* Reached: a resolution call at a snap point pair, each coordinate the first
\* match of itself and x taken from another image's edges, while the right
\* edge of the rectangle has a different point within tolerance.
C4_Witness ==
    /\ Resolved
    /\ OnSnapPointPair
    /\ FirstMatch(lastCall.newX, CandidateV) = lastCall.newX
    /\ FirstMatch(lastCall.newY, CandidateH) = lastCall.newY
    /\ lastCall.newX \notin Range(SubSeq(CandidateV, 1, 3))
    /\ FirstMatch(KeyRight, CandidateV) # KeyRight
    /\ lastCall.out = Proposed

-----------------------------------------------------------------------------
\* The example of the specification: canvas 800 x 600, snapping on, exactly
\* one other image, at (100, 100) of size 200 x 150, and a rectangle of
\* 50 x 50 proposed at (105, 98).
ExampleOneImage ==
    /\ Snapped
    /\ snapEnabled
    /\ canvasSize = [width |-> 800, height |-> 600]
    /\ Cardinality(OtherIndices(lastCall.imageId)) = 1
    /\ \A i \in OtherIndices(lastCall.imageId) :
          /\ canvasImages[i].x = 100 /\ canvasImages[i].y = 100
          /\ canvasImages[i].width = 200 /\ canvasImages[i].height = 150
    /\ lastCall.newX = 105 /\ lastCall.newY = 98
    /\ lastCall.width = 50 /\ lastCall.height = 50

(* C5 as stated: in the example applySnapping returns {x: 100, y: 100}.     *)
C5_ExampleSnapsToCorner ==
    ExampleOneImage => lastCall.out = Pos(100, 100)

(* C5 as amended: in the example applySnapping returns {x: 105, y: 100}:    *)
(* the right-edge scenario, which moves only y (score 2), beats the         *)
(* left-edge scenario (score 7).                                            *)
C5_ExampleSnapsTopOnly ==
    ExampleOneImage =>
        /\ lastCall.out = Pos(105, 100)
        /\ ScenarioPos(1) = Pos(100, 100) /\ ScenarioScore(1) = 7
        /\ ScenarioPos(2) = Pos(105, 100) /\ ScenarioScore(2) = 2

\* Reached: the example call has been made.
C5_Witness == ExampleOneImage /\ lastCall.out = Pos(105, 100)

\* The second example: canvas 800 x 600, snapping on, no other image, and a
\* rectangle of 50 x 50 proposed at (400, 300).
ExampleNoImage ==
    /\ Snapped
    /\ snapEnabled
    /\ canvasSize = [width |-> 800, height |-> 600]
    /\ OtherIndices(lastCall.imageId) = {}
    /\ lastCall.newX = 400 /\ lastCall.newY = 300
    /\ lastCall.width = 50 /\ lastCall.height = 50

(* C6: on an 800 x 600 canvas with snapping on and no other image,          *)
(* applySnapping for a 50 x 50 rectangle proposed at (400, 300) returns     *)
(* {x: 400, y: 300}.                                                        *)
C6_ExampleStays ==
    ExampleNoImage => lastCall.out = Pos(400, 300)

\* Reached: the second example call has been made; its left and top edges lie
\* on the canvas center lines.
C6_Witness ==
    /\ ExampleNoImage
    /\ lastCall.scenarios[1].x = Half(canvasSize.width)
    /\ lastCall.scenarios[1].y = Half(canvasSize.height)

-----------------------------------------------------------------------------
(* C11: applySnapping never raises to its caller and always returns an     *)
(* (x, y) pair; when its try block fails (an exception, or a missing point *)
(* set) the pair is the proposed position.                                 *)

Failed == lastCall.op \in Failures

-----------------------------------------------------------------------------
(* C16: getSnapPoints and applySnapping are read-only: a call, on whichever *)
(* path it returns, leaves the placed images, the canvas frame, the snap    *)
(* flag, the selection and the active guide set as they were.               *)
C16_CallsAreReadOnly ==
    [][ (lastCall' # lastCall /\ lastCall'.op # "none")
            => UNCHANGED <<canvasImages, canvasSize, snapEnabled,
                           selectedImageId, activeSnapGuides>> ]_vars

\* Reached: a call that moved the proposed rectangle has returned.
C16_Witness ==
    /\ Resolved
    /\ Len(canvasImages) = MaxImages
    /\ lastCall.out.x # lastCall.newX
    /\ lastCall.out.y # lastCall.newY

-----------------------------------------------------------------------------
\* The centre scenario, and no edge scenario, is where the call returned.
CenterReturned ==
    /\ lastCall.out = ScenarioPos(3)
    /\ \A i \in {1, 2, 4} : lastCall.out # ScenarioPos(i)

\* The result is the position of an edge scenario.
EdgeReturned == \E i \in {1, 2, 4} : lastCall.out = ScenarioPos(i)

(* C17 as stated: the centre scenario is returned only when its raw         *)
(* displacement is smaller by more than 5 than that of every eligible edge  *)
(* scenario; when an edge scenario's raw displacement is at most the        *)
(* centre's plus 5, the result is an edge scenario's position.              *)
C17_EdgePreferred ==
    Resolved =>
        /\ CenterReturned =>
              \A i \in {1, 2, 4} \cap Qualifying :
                  ScenarioRaw(3) + 5 < ScenarioRaw(i)
        /\ (\E i \in {1, 2, 4} \cap Qualifying :
                  ScenarioRaw(i) <= ScenarioRaw(3) + 5) => EdgeReturned

(* C17 as the code has it: the left and right scenarios are visited before  *)
(* the centre one and keep the result on a tie of adjusted scores, the      *)
(* bottom scenario is visited after it and loses the tie.  The centre       *)
(* scenario is returned only when its raw displacement plus 5 is below that *)
(* of the eligible left and right scenarios and at most that of the         *)
(* eligible bottom scenario; otherwise the result is an edge scenario's.    *)
C17_EdgePreferredButBottomTie ==
    Resolved =>
        /\ CenterReturned =>
              /\ \A i \in {1, 2} \cap Qualifying :
                    ScenarioRaw(3) + 5 < ScenarioRaw(i)
              /\ 4 \in Qualifying => ScenarioRaw(3) + 5 <= ScenarioRaw(4)
        /\ ( \/ \E i \in {1, 2} \cap Qualifying :
                    ScenarioRaw(i) <= ScenarioRaw(3) + 5
             \/ 4 \in Qualifying /\ ScenarioRaw(4) < ScenarioRaw(3) + 5 )
              => EdgeReturned

\* Reached: the centre scenario won against three edge scenarios that moved
\* the rectangle, the bottom one at exactly the centre's adjusted score.
C17_Witness ==
    /\ Resolved
    /\ CenterReturned
    /\ ScenarioRaw(4) = ScenarioRaw(3) + 5

-----------------------------------------------------------------------------
\* The placed images with every rotation set to 0.
Unrotated(images) ==
    [ i \in DOMAIN images |-> [images[i] EXCEPT !.rotation = 0] ]

\* The candidate points of the placed images other than excludeId, were none
\* of them rotated.
UnrotatedPoints(excludeId) ==
    ForEachImage(CanvasPoints, Unrotated(OtherImages(excludeId)), 1)

(* C18: rotation is not an input of the snap computation: getSnapPoints and *)
(* applySnapping return what they return in the state that differs from the *)
(* current one only in the rotations of the placed images (all set to 0).   *)
C18_RotationIgnored ==
    /\ GotPoints => lastCall.points = UnrotatedPoints(lastCall.imageId)
    /\ Resolved =>
          lastCall.out =
              ForEachScenario(
                  [bestSnap |-> Proposed, minDistance |-> Infinity],
                  snapScenarios(UnrotatedPoints(lastCall.imageId),
                                lastCall.newX, lastCall.newY,
                                lastCall.width, lastCall.height),
                  lastCall.newX, lastCall.newY, 1).bestSnap

\* Reached: a call snapped the rectangle onto a point of an image turned by
\* 90 degrees, whose client rectangle has no such point.
C18_Witness ==
    /\ Resolved
    /\ lastCall.out.x # lastCall.newX
    /\ \E i \in OtherIndices(lastCall.imageId) :
          LET img == canvasImages[i]
          IN /\ img.rotation = 90
             /\ lastCall.out.x + lastCall.width = img.x + img.width
             /\ \A j \in OtherIndices(lastCall.imageId) \ {i} :
                   lastCall.out.x + lastCall.width
                       \notin Range(VerticalOf(canvasImages[j]))

-----------------------------------------------------------------------------
(* C19: the position applySnapping returns is less than 50 from the         *)
(* proposed one (|out.x - x| + |out.y - y| < 50), and it is the proposed    *)
(* position or that of a scenario whose adjusted score is below 50.         *)
C19_BelowCeiling ==
    Snapped =>
        /\ Abs(lastCall.out.x - lastCall.newX)
              + Abs(lastCall.out.y - lastCall.newY) < 50
        /\ Resolved =>
              \/ lastCall.out = Proposed
              \/ \E i \in DOMAIN lastCall.scenarios :
                    /\ lastCall.out = ScenarioPos(i)
                    /\ ScenarioScore(i) < 50

\* Reached: the call returned a position away from the proposed one on both
\* axes, by the whole tolerance on one of them.
C19_Witness ==
    /\ Resolved
    /\ Abs(lastCall.out.x - lastCall.newX) = SNAP_TOLERANCE
    /\ lastCall.out.y # lastCall.newY

-----------------------------------------------------------------------------
(* Vocabulary of the editor's properties *)

Dragging == gesture.kind = "drag"
Resizing == gesture.kind = "transform"

\* The candidate points of the provider, the object of the last event
\* excluded, that lie within 3 x tolerance of that event's raw position.
PointsNearRaw ==
    LET snapPoints == getSnapPoints(event.id)
    IN [ x |-> SelectSeq(snapPoints.vertical,
                         LAMBDA v : Abs(v - event.x) <= 3 * SNAP_TOLERANCE),
         y |-> SelectSeq(snapPoints.horizontal,
                         LAMBDA v : Abs(v - event.y) <= 3 * SNAP_TOLERANCE) ]

(* C12: while dragging, after every drag event (the drag start and each     *)
(* drag move) the active guide set is the subset of the provider's points,  *)
(* the dragged object excluded, within 3 x tolerance of the object's raw    *)
(* position at that event.                                                  *)
C12_GuidesFollowDrag ==
    event.type \in {"dragStart", "dragMove"} => activeSnapGuides = PointsNearRaw

-----------------------------------------------------------------------------
\* What applySnapping makes of the rectangle of the last event.
SnappedOfEvent ==
    applySnapping(event.id, event.x, event.y, event.width, event.height)

\* The edges of the snapped rectangle of the last event.
SnappedEdges ==
    [ x |-> <<SnappedOfEvent.x, SnappedOfEvent.x + event.width>>,
      y |-> <<SnappedOfEvent.y, SnappedOfEvent.y + event.height>> ]

\* The first n elements of a sequence.
Take(points, n) == [ i \in 1..(IF Len(points) < n THEN Len(points) ELSE n) |-> points[i] ]

-----------------------------------------------------------------------------
(* C14: whenever an interaction ends (drag end, also when its handler       *)
(* catches an error, or transform end) the guide set is empty afterwards,   *)
(* so that in every state where no drag or resize is in progress the guide  *)
(* set is empty.                                                            *)
C14_NoGuidesAtRest ==
    /\ event.type \in {"dragEnd", "dragEndCaught", "transformEnd"} =>
          activeSnapGuides = NoGuides
    /\ ~(Dragging \/ Resizing) => activeSnapGuides = NoGuides

\* Reached: a drag that showed guides at its start has ended in the catch
\* clause of its handler.
C14_Witness ==
    /\ event.type = "dragEndCaught"
    /\ ~(Dragging \/ Resizing)
    /\ Len(canvasImages) = MaxImages
    /\ \E img \in Range(canvasImages) :
          img.id # event.id /\ Abs(img.x - event.x) <= 3 * SNAP_TOLERANCE

-----------------------------------------------------------------------------
(* C15: every placed object has width > 0 and height > 0 in every reachable *)
(* state, across import, drag, resize (transform end), crop (enter, move or *)
(* resize the crop rectangle, apply, cancel) and delete.                    *)
C15_PositiveSizes ==
    \A img \in Range(canvasImages) : img.width > 0 /\ img.height > 0

-----------------------------------------------------------------------------
(* C20: a drag end on object o with crop mode off sets o's stored x and y   *)
(* to applySnapping(o.id, node x, node y, o.width, o.height) taken at the   *)
(* release position and changes no other attribute of o (width, height,     *)
(* rotation, src) and no other object; with crop mode on it leaves the list *)
(* of placed objects unchanged.                                             *)
C20_DragEndCommitsPosition ==
    [][ event'.type = "dragEnd" =>
          LET o == FindImage(event'.id)
              node == nodes[o.id]
              snapped == applySnapping(o.id, node.x, node.y, o.width, o.height)
          IN IF cropMode
             THEN canvasImages' = canvasImages
             ELSE /\ Len(canvasImages') = Len(canvasImages)
                  /\ \A i \in DOMAIN canvasImages :
                        canvasImages'[i] =
                            IF canvasImages[i].id = o.id
                            THEN [o EXCEPT !.x = snapped.x, !.y = snapped.y]
                            ELSE canvasImages[i] ]_vars

\* Reached: with crop mode off and another image placed, a drag ended and
\* its image was stored at the snapped position, away from where the node
\* was released.
C20_Witness ==
    /\ event.type = "dragEnd"
    /\ ~cropMode
    /\ Len(canvasImages) = MaxImages
    /\ Pos(FindImage(event.id).x, FindImage(event.id).y) = SnappedOfEvent
    /\ SnappedOfEvent # Pos(event.x, event.y)

-----------------------------------------------------------------------------
(* C22: with snapping enabled, the position applySnapping returns differs   *)
(* from the proposed one by at most the tolerance on each axis separately:  *)
(* |out.x - proposedX| <= 10 and |out.y - proposedY| <= 10.                 *)
C22_WithinTolerancePerAxis ==
    (Snapped /\ snapEnabled) =>
        /\ Abs(lastCall.out.x - lastCall.newX) <= 10
        /\ Abs(lastCall.out.y - lastCall.newY) <= 10

\* Reached: the call moved the rectangle by the whole tolerance on one axis
\* and by less, but not nothing, on the other.
C22_Witness ==
    /\ Resolved
    /\ Abs(lastCall.out.x - lastCall.newX) = 10
    /\ Abs(lastCall.out.y - lastCall.newY) \in 1..9

-----------------------------------------------------------------------------
\* The snap points the provider owes the object of the recorded call: the
\* canvas edges and centre, and the edges and centre of every other image.
OwedVertical ==
    {0, canvasSize.width, Half(canvasSize.width)}
        \cup UNION { Range(VerticalOf(canvasImages[i])) :
                        i \in OtherIndices(lastCall.imageId) }
OwedHorizontal ==
    {0, canvasSize.height, Half(canvasSize.height)}
        \cup UNION { Range(HorizontalOf(canvasImages[i])) :
                        i \in OtherIndices(lastCall.imageId) }

(* C23: whenever the x applySnapping returns differs from the proposed x,   *)
(* the left edge, the right edge or the horizontal centre of the returned   *)
(* rectangle lies exactly on a vertical point of getSnapPoints(objectId);   *)
(* likewise for y and the top edge, bottom edge or vertical centre.         *)
C23_MovedOntoSnapPoint ==
    Snapped =>
        /\ lastCall.out.x # lastCall.newX =>
              \E k \in { lastCall.out.x, lastCall.out.x + lastCall.width,
                          lastCall.out.x + Half(lastCall.width) } :
                  k \in OwedVertical
        /\ lastCall.out.y # lastCall.newY =>
              \E k \in { lastCall.out.y, lastCall.out.y + lastCall.height,
                          lastCall.out.y + Half(lastCall.height) } :
                  k \in OwedHorizontal

\* Reached: the right-edge scenario, and not the left-edge one, was returned
\* and moved the rectangle along x and y: its right edge lies on a vertical
\* point of another image and its top edge on a horizontal point.
C23_Witness ==
    /\ Resolved
    /\ lastCall.out.x # lastCall.newX
    /\ lastCall.out.y # lastCall.newY
    /\ lastCall.out = ScenarioPos(2)
    /\ lastCall.out # ScenarioPos(1)
    /\ lastCall.out.x + lastCall.width
           \in OwedVertical \ {0, canvasSize.width, Half(canvasSize.width)}
    /\ lastCall.out.y \in OwedHorizontal

-----------------------------------------------------------------------------
(* C24: axis independence: if no horizontal snap point is within tolerance  *)
(* of the proposed top, bottom or centerY, applySnapping returns            *)
(* y = proposedY whatever it does to x; symmetrically for the vertical      *)
(* points, the proposed left, right and centerX, and x.                     *)
C24_AxisIndependence ==
    Snapped =>
        /\ (\A k \in {KeyTop, KeyBottom, KeyCenterY} : Matches(k, CandidateH) = {})
              => lastCall.out.y = lastCall.newY
        /\ (\A k \in {KeyLeft, KeyRight, KeyCenterX} : Matches(k, CandidateV) = {})
              => lastCall.out.x = lastCall.newX

\* Reached: no horizontal point was near the rectangle, and the call moved
\* it along x alone.
C24_Witness ==
    /\ Resolved
    /\ \A k \in {KeyTop, KeyBottom, KeyCenterY} : Matches(k, CandidateH) = {}
    /\ lastCall.out.x # lastCall.newX
    /\ lastCall.out.y = lastCall.newY

-----------------------------------------------------------------------------
\* The qualifying scenarios of minimum adjusted score.
Minimal ==
    { i \in Qualifying : \A j \in Qualifying : ScenarioScore(i) <= ScenarioScore(j) }

(* C25: when several eligible scenarios share the minimum adjusted score,   *)
(* applySnapping returns the one that comes first in the evaluation order   *)
(* left edge, right edge, centre, bottom edge.                              *)
C25_FirstMinimumWins ==
    (Resolved /\ Minimal # {}) =>
        lastCall.out =
            ScenarioPos(CHOOSE i \in Minimal : \A j \in Minimal : i <= j)

\* Reached: the centre scenario and the bottom-edge scenario shared the
\* minimum at different positions, and the centre one was returned.
C25_Witness ==
    /\ Resolved
    /\ Minimal = {3, 4}
    /\ ScenarioPos(3) # ScenarioPos(4)
    /\ lastCall.out = ScenarioPos(3)

-----------------------------------------------------------------------------
\* The candidate points getSnapPoints(id) returns are the canvas points and
\* one block per image standing on the canvas now, id's own left out.
PointsOfPlacedOnly(id) ==
    LET V == getSnapPoints(id).vertical
        H == getSnapPoints(id).horizontal
        n == Cardinality(OtherIndices(id))
    IN /\ Len(V) = 3 + 3 * n
       /\ Len(H) = 3 + 3 * n
       /\ \A k \in 1..n :
             /\ Block(V, k) = VerticalOf(canvasImages[NthOther(id, k)])
             /\ Block(H, k) = HorizontalOf(canvasImages[NthOther(id, k)])

\* The step is a press of the Delete button.
Deletes == event'.type = "deleteSelected"

(* C21: deleteSelected with an image selected removes exactly that image    *)
(* from the list (the others keep their order and attributes) and sets the  *)
(* selection to none; an id that has left the list never returns to it and  *)
(* getSnapPoints returns points of the images on the list only, so no       *)
(* later result holds points of the deleted image; with nothing selected    *)
(* the list and the selection are left as they were.                        *)
C21_DeleteRemovesSelected ==
    /\ [] (\A id \in Ids \cup {NoId} : PointsOfPlacedOnly(id))
    /\ [][ /\ \A id \in Ids :
                 (id < nextId /\ id \notin PlacedIds) => id \notin PlacedIds'
           /\ (Deletes /\ selectedImageId # NoId) =>
                 /\ canvasImages' =
                        SelectSeq(canvasImages,
                                  LAMBDA img : img.id # selectedImageId)
                 /\ selectedImageId' = NoId
           /\ (Deletes /\ selectedImageId = NoId) =>
                 UNCHANGED <<canvasImages, selectedImageId>> ]_vars

\* Reached: the first of two images was deleted, the second stands; the
\* points of the deleted one differed from those of the one left.
C21_Witness ==
    /\ event.type = "deleteSelected"
    /\ event.id = 1
    /\ selectedImageId = NoId
    /\ PlacedIds = {2}
    /\ nextId = 3
    /\ Len(getSnapPoints(NoId).vertical) = 6

-----------------------------------------------------------------------------
(* C27: in every reachable state the selection is none or the id of an      *)
(* image on the list, whatever imports, selections, presses on the empty    *)
(* canvas, deletions, drags, resizes and crops led to it.                   *)
C27_SelectionIsPlaced ==
    selectedImageId = NoId \/ selectedImageId \in PlacedIds

\* Reached: an image was deleted while another stood on the canvas, and the
\* other one was selected afterwards.
C27_Witness ==
    /\ nextId = 3
    /\ Cardinality(PlacedIds) = 1
    /\ selectedImageId \in PlacedIds
    /\ event.type = "selectImage"

-----------------------------------------------------------------------------
(* C28: in every reachable state crop mode is on exactly when there is a    *)
(* crop rectangle, through entering crop mode, dragging and resizing the    *)
(* crop rectangle, applying the crop with its load callback, and cancel.    *)
C28_CropModeIffCropRect == cropMode <=> cropRect # <<>>

\* Reached: a crop session that was entered, had its rectangle moved and was
\* applied has been closed by the load callback.
C28_Witness ==
    /\ event.type = "onload"
    /\ ~cropMode
    /\ cropRect = <<>>
    /\ crops = 1
    /\ \E img \in Range(canvasImages) :
          img.id = event.id /\ img.src = 1 /\ img.x = 110

-----------------------------------------------------------------------------
\* Crop mode is off while a load requested by Apply Crop is pending: the
\* session it was requested in was cancelled (the callback that closes a
\* session is no longer pending once it has run).
LoadLeftByCancel == ~cropMode /\ pendingLoads # {}

\* The step is the load callback of applyCrop.
Loads == event'.type = "onload"

(* C29 as stated: cancelling a crop is final: once cancelCrop has run, a    *)
(* load callback left pending by an earlier Apply Crop of that session      *)
(* changes neither the list of placed images nor cropMode nor cropRect.     *)
C29_CancelIsFinal ==
    [][ (LoadLeftByCancel /\ Loads) =>
            UNCHANGED <<canvasImages, cropMode, cropRect>> ]_vars

-----------------------------------------------------------------------------
\* The step is a drag end that follows a drag move with the pointer still:
\* the node is where the move's applySnapping put it.
EndsAfterMove == event.type = "dragMove" /\ event'.type = "dragEnd"

(* C26 as stated: the position committed at drag end equals the position    *)
(* the last drag move gave the object when the pointer did not move in      *)
(* between (drag end re-applies applySnapping to the snapped position, and  *)
(* applying it twice is taken to equal applying it once).                   *)
C26_DragEndKeepsMovePosition ==
    [][ (EndsAfterMove /\ ~cropMode) =>
           LET id == event.id
           IN \A i \in DOMAIN canvasImages' :
                 canvasImages'[i].id = id =>
                    Pos(canvasImages'[i].x, canvasImages'[i].y) = nodes[id] ]_vars

-----------------------------------------------------------------------------
\* Apply Crop has just been pressed: the toolbar button in crop mode.
ApplyPressed == event.type = "applyCrop"

\* The load callback has just closed the crop session and given the image
\* the position and size of the crop rectangle.
CropApplied ==
    /\ event.type = "onload"
    /\ ~cropMode
    /\ \E img \in Range(canvasImages) :
          /\ img.id = event.id
          /\ img.x = event.x /\ img.y = event.y
          /\ img.width = event.width /\ img.height = event.height

(* C30 as stated: whenever Apply Crop is pressed while crop mode is on,     *)
(* crop mode is eventually turned off with the selected image's position    *)
(* and size replaced by the crop rectangle's, given that the load callback  *)
(* eventually fires, whatever events came during crop mode (a press on the  *)
(* empty canvas among them).                                                *)
C30_ApplyCropCloses == ApplyPressed ~> CropApplied

=============================================================================
